---- MODULE Spec2Model ----
(***************************************************************************)
(* Model of `nova config` (src/commands/config.rs): the configs table, the *)
(* working directory, and the list / clone / vim / add / remove handlers.  *)
(* Every handler is split at its accesses to the table, the file system    *)
(* and the editor subprocess, so that invocations running in different     *)
(* processes interleave exactly where the real ones can.                   *)
(***************************************************************************)
EXTENDS Integers, Sequences, FiniteSets, TLC

\* ---------------------------------------------------------------- bounds
MaxInvocations == 2   \* invocations started in one behaviour
MaxArgs == 2          \* longest argument list given to clone

\* ---------------------------------------------------------------- domains
Procs == {"p1", "p2"}
Filenames == {"a.conf", "b.conf"}
Shorthands == {"a", "b"}
Contents == {"", "X", "Y"}
NoFile == "<absent>"
NoConfig == [filename |-> "<none>", shorthand |-> "<none>", content |-> ""]
Commands == {"list", "clone", "vim", "add", "remove"}

Config == [filename : Filenames, shorthand : Shorthands, content : Contents]

TempPath(f) == f \o ".temp"
Paths == Filenames \cup {TempPath(f) : f \in Filenames}

SeqsUpTo(S, n) == UNION {[1..k -> S] : k \in 0..n}

VARIABLES
  configs,   \* the configs table, rows in insertion order
  fs,        \* the working directory: path -> content, or NoFile
  pc,        \* per process: where its invocation stands
  cmd,       \* per process: the subcommand it runs
  args,      \* per process: context.args
  config,    \* per process: the row fetched by vim / clone
  content,   \* per process: the text read by add / vim
  child,     \* per process: the editor subprocess
  idx,       \* per process: position of clone's loop in args
  out,       \* per process: what the invocation printed, <<text, argument>>
  stages,    \* per process: the stages the invocation has executed
  pre,       \* per process: the table as it was when the invocation started
  inv,       \* per process: the ordinal of its invocation among all those started
  started    \* number of invocations started

vars == <<configs, fs, pc, cmd, args, config, content, child, idx, out, stages, pre, inv, started>>

\* ---------------------------------------------------------------- the table
ByFilename(t, f) == LET P(r) == r.filename = f IN SelectSeq(t, P)
ByShorthand(t, s) == LET P(r) == r.shorthand = s IN SelectSeq(t, P)

\* (mutant) only the filename column is declared unique
UniqueViolation_filenameOnly(t, r) ==
  \E i \in DOMAIN t : t[i].filename = r.filename

\* columns declared unique: an insert that would repeat a key is rejected
UniqueViolation(t, r) ==
  \E i \in DOMAIN t : t[i].filename = r.filename \/ t[i].shorthand = r.shorthand

DeleteByFilename(t, f) == LET P(r) == r.filename # f IN SelectSeq(t, P)

\* (mutant) the update has no filter on the filename
UpdateContent_noFilter(t, f, c) ==
  [i \in DOMAIN t |-> [t[i] EXCEPT !.content = c]]

UpdateContent(t, f, c) ==
  [i \in DOMAIN t |-> IF t[i].filename = f THEN [t[i] EXCEPT !.content = c] ELSE t[i]]

\* ---------------------------------------------------------------- the file system
WriteResults(f, path, data) ==
  { [ok |-> TRUE,  fs |-> [f EXCEPT ![path] = data]],
    [ok |-> FALSE, fs |-> f],                          \* could not create / open
    [ok |-> FALSE, fs |-> [f EXCEPT ![path] = ""]] }   \* created, then the write failed

ReadResults(f, path) ==
  {[ok |-> FALSE, data |-> ""]} \cup
  (IF f[path] = NoFile THEN {} ELSE {[ok |-> TRUE, data |-> f[path]]})

RemoveResults(f, path) ==
  {[ok |-> FALSE, fs |-> f]} \cup
  (IF f[path] = NoFile THEN {} ELSE {[ok |-> TRUE, fs |-> [f EXCEPT ![path] = NoFile]]})

\* ---------------------------------------------------------------- helpers
Say(p, msgs) == out' = [out EXCEPT ![p] = @ \o msgs]
Goto(p, l) == pc' = [pc EXCEPT ![p] = l]
Stage(p, s) == stages' = [stages EXCEPT ![p] = Append(@, s)]
ErrLine == <<"Error", "err">>

\* the working directory holds a.conf; the table is empty or holds b.conf alone
InitFs == [q \in Paths |-> IF q = "a.conf" THEN "X" ELSE NoFile]

Init ==
  /\ configs \in {<< >>, <<[filename |-> "b.conf", shorthand |-> "b", content |-> "Y"]>>}
  /\ fs = InitFs
  /\ pc = [p \in Procs |-> "idle"]
  /\ cmd = [p \in Procs |-> "none"]
  /\ args = [p \in Procs |-> << >>]
  /\ config = [p \in Procs |-> NoConfig]
  /\ content = [p \in Procs |-> ""]
  /\ child = [p \in Procs |-> "none"]
  /\ idx = [p \in Procs |-> 0]
  /\ out = [p \in Procs |-> << >>]
  /\ stages = [p \in Procs |-> << >>]
  /\ pre = [p \in Procs |-> << >>]
  /\ inv = [p \in Procs |-> 0]
  /\ started = 0

\* ---------------------------------------------------------------- dispatch
ArgLists(c) ==
  CASE c = "list"   -> {<< >>}
    [] c = "clone"  -> SeqsUpTo(Shorthands, MaxArgs)
    [] c = "vim"    -> {<< >>} \cup {<<f>> : f \in Filenames}
    [] c = "add"    -> {<< >>} \cup {<<f>> : f \in Filenames}
                         \cup {<<f, s>> : f \in Filenames, s \in Shorthands}
    [] c = "remove" -> {<< >>} \cup {<<f>> : f \in Filenames}

\* the handler's first label, or "done" with the usage message it prints
Entry(c, a) ==
  CASE c = "list"   -> [pc |-> "list_load", out |-> << >>]
    [] c = "clone"  -> IF Len(a) = 0 THEN [pc |-> "done", out |-> << >>]
                       ELSE [pc |-> "clone_lookup", out |-> << >>]
    [] c = "vim"    -> IF Len(a) = 0
                       THEN [pc |-> "done", out |-> << <<"Please provide a filename", "">> >>]
                       ELSE [pc |-> "Lookup", out |-> << >>]
    [] c = "add"    -> IF Len(a) = 0
                       THEN [pc |-> "done",
                             out |-> << <<"Please provide a filename, then a shorthand", "">> >>]
                       ELSE IF Len(a) = 1
                       THEN [pc |-> "done", out |-> << <<"Please provide a shorthand", "">> >>]
                       ELSE [pc |-> "add_read", out |-> << >>]
    [] c = "remove" -> IF Len(a) = 0
                       THEN [pc |-> "done", out |-> << <<"Please provide a filename", "">> >>]
                       ELSE [pc |-> "remove_delete", out |-> << >>]

\* a process is launched with a subcommand and its arguments; the processes are
\* named in the order of their first launch
Start(p) ==
  /\ pc[p] \in {"idle", "done"}
  /\ p = "p1" \/ pc["p1"] # "idle"
  /\ started < MaxInvocations
  /\ \E c \in Commands : \E a \in ArgLists(c) :
       /\ cmd' = [cmd EXCEPT ![p] = c]
       /\ args' = [args EXCEPT ![p] = a]
       /\ pc' = [pc EXCEPT ![p] = Entry(c, a).pc]
       /\ out' = [out EXCEPT ![p] = Entry(c, a).out]
  /\ config' = [config EXCEPT ![p] = NoConfig]
  /\ content' = [content EXCEPT ![p] = ""]
  /\ child' = [child EXCEPT ![p] = "none"]
  /\ idx' = [idx EXCEPT ![p] = 1]
  /\ stages' = [stages EXCEPT ![p] = << >>]
  /\ pre' = [pre EXCEPT ![p] = configs]
  /\ inv' = [inv EXCEPT ![p] = started + 1]
  /\ started' = started + 1
  /\ UNCHANGED <<configs, fs>>

\* ---------------------------------------------------------------- vim
\* Lookup: configs.filter(filename.eq(filename)).first(); any Err is "unknown"
VimLookup(p) ==
  /\ pc[p] = "Lookup"
  /\ Stage(p, "Lookup")
  /\ \E dbOk \in BOOLEAN :
       LET found == ByFilename(configs, args[p][1]) IN
       IF dbOk /\ Len(found) > 0
       THEN /\ config' = [config EXCEPT ![p] = found[1]]
            /\ Goto(p, "WriteTemp")
            /\ UNCHANGED out
       ELSE /\ Say(p, << <<"Unknown config filename", args[p][1]>> >>)
            /\ Goto(p, "done")
            /\ UNCHANGED config
  /\ UNCHANGED <<configs, fs, cmd, args, content, child, idx, pre, inv, started>>

\* WriteTemp: fs::write(filename + ".temp", config.content)
VimWriteTemp(p) ==
  /\ pc[p] = "WriteTemp"
  /\ Stage(p, "WriteTemp")
  /\ \E w \in WriteResults(fs, TempPath(config[p].filename), config[p].content) :
       /\ fs' = w.fs
       /\ IF w.ok
          THEN Goto(p, "SpawnEditor") /\ UNCHANGED out
          ELSE /\ Say(p, << <<"Unable to temp file", config[p].filename>>, ErrLine >>)
               /\ Goto(p, "done")
  /\ UNCHANGED <<configs, cmd, args, config, content, child, idx, pre, inv, started>>

\* (mutant) a failed spawn removes the temp file before returning
VimSpawnEditor_cleanup(p) ==
  /\ pc[p] = "SpawnEditor"
  /\ Stage(p, "SpawnEditor")
  /\ \E ok \in BOOLEAN :
       IF ok
       THEN /\ child' = [child EXCEPT ![p] = "running"]
            /\ Goto(p, "WaitEditor")
            /\ UNCHANGED <<out, fs>>
       ELSE /\ Say(p, << <<"Failed to run editor", "">>, ErrLine >>)
            /\ fs' = [fs EXCEPT ![TempPath(config[p].filename)] = NoFile]
            /\ Goto(p, "done")
            /\ UNCHANGED child
  /\ UNCHANGED <<configs, cmd, args, config, content, idx, pre, inv, started>>

\* (mutant) a failed spawn is tried again instead of returning
VimSpawnEditor_retry(p) ==
  /\ pc[p] = "SpawnEditor"
  /\ Stage(p, "SpawnEditor")
  /\ Len(stages[p]) < 4
  /\ \E ok \in BOOLEAN :
       IF ok
       THEN /\ child' = [child EXCEPT ![p] = "running"]
            /\ Goto(p, "WaitEditor")
            /\ UNCHANGED out
       ELSE /\ Say(p, << <<"Failed to run editor", "">>, ErrLine >>)
            /\ Goto(p, "SpawnEditor")
            /\ UNCHANGED child
  /\ UNCHANGED <<configs, fs, cmd, args, config, content, idx, pre, inv, started>>

\* SpawnEditor: Command::new("/usr/bin/vim").arg(path).spawn()
VimSpawnEditor(p) ==
  /\ pc[p] = "SpawnEditor"
  /\ Stage(p, "SpawnEditor")
  /\ \E ok \in BOOLEAN :
       IF ok
       THEN /\ child' = [child EXCEPT ![p] = "running"]
            /\ Goto(p, "WaitEditor")
            /\ UNCHANGED out
       ELSE /\ Say(p, << <<"Failed to run editor", "">>, ErrLine >>)
            /\ Goto(p, "done")
            /\ UNCHANGED child
  /\ UNCHANGED <<configs, fs, cmd, args, config, content, idx, pre, inv, started>>

\* the editor subprocess saves the buffer to the temp file
EditorSave(p) ==
  /\ child[p] = "running"
  /\ \E c \in Contents : fs' = [fs EXCEPT ![TempPath(config[p].filename)] = c]
  /\ UNCHANGED <<configs, pc, cmd, args, config, content, child, idx, out, stages, pre, inv, started>>

\* the editor subprocess exits, with a zero or a non-zero status
EditorExit(p) ==
  /\ child[p] = "running"
  /\ \E st \in {"exit0", "exit1"} : child' = [child EXCEPT ![p] = st]
  /\ UNCHANGED <<configs, fs, pc, cmd, args, config, content, idx, out, stages, pre, inv, started>>

\* (mutant) the wait gives up on an editor that is still running and goes on
VimWaitEditor_timeout(p) ==
  /\ pc[p] = "WaitEditor"
  /\ \/ /\ child[p] \in {"running", "exit0", "exit1"}
        /\ Goto(p, "ReadTemp")
        /\ UNCHANGED out
     \/ /\ Say(p, << <<"Editor returned a non-zero status", "">>, ErrLine >>)
        /\ Goto(p, "done")
  /\ Stage(p, "WaitEditor")
  /\ UNCHANGED <<configs, fs, cmd, args, config, content, child, idx, pre, inv, started>>

\* WaitEditor: child.wait() blocks until the child has exited; Ok(_) whatever its
\* status, Err only when the wait itself fails
VimWaitEditor(p) ==
  /\ pc[p] = "WaitEditor"
  /\ \/ /\ child[p] \in {"exit0", "exit1"}
        /\ Goto(p, "ReadTemp")
        /\ UNCHANGED out
     \/ /\ Say(p, << <<"Editor returned a non-zero status", "">>, ErrLine >>)
        /\ Goto(p, "done")
  /\ Stage(p, "WaitEditor")
  /\ UNCHANGED <<configs, fs, cmd, args, config, content, child, idx, pre, inv, started>>

\* (mutant) the read-failure arm removes the temp file before returning
VimReadTemp_cleanup(p) ==
  /\ pc[p] = "ReadTemp"
  /\ Stage(p, "ReadTemp")
  /\ \E r \in ReadResults(fs, TempPath(config[p].filename)) :
       IF r.ok
       THEN /\ content' = [content EXCEPT ![p] = r.data]
            /\ Goto(p, "RemoveTemp")
            /\ UNCHANGED <<out, fs>>
       ELSE /\ Say(p, << <<"Unable to read temp file", config[p].filename>>, ErrLine >>)
            /\ fs' = [fs EXCEPT ![TempPath(config[p].filename)] = NoFile]
            /\ Goto(p, "done")
            /\ UNCHANGED content
  /\ UNCHANGED <<configs, cmd, args, config, child, idx, pre, inv, started>>

\* ReadTemp: fs::read_to_string(path)
VimReadTemp(p) ==
  /\ pc[p] = "ReadTemp"
  /\ Stage(p, "ReadTemp")
  /\ \E r \in ReadResults(fs, TempPath(config[p].filename)) :
       IF r.ok
       THEN /\ content' = [content EXCEPT ![p] = r.data]
            /\ Goto(p, "RemoveTemp")
            /\ UNCHANGED out
       ELSE /\ Say(p, << <<"Unable to read temp file", config[p].filename>>, ErrLine >>)
            /\ Goto(p, "done")
            /\ UNCHANGED content
  /\ UNCHANGED <<configs, fs, cmd, args, config, child, idx, pre, inv, started>>

\* (mutant) the remove-failure arm lacks its return and falls through to the comparison
VimRemoveTemp_noReturn(p) ==
  /\ pc[p] = "RemoveTemp"
  /\ Stage(p, "RemoveTemp")
  /\ \E r \in RemoveResults(fs, TempPath(config[p].filename)) :
       /\ fs' = r.fs
       /\ IF r.ok
          THEN UNCHANGED out
          ELSE Say(p, << <<"Unable to remove temp file", config[p].filename>>, ErrLine >>)
  /\ Goto(p, "Compare")
  /\ UNCHANGED <<configs, cmd, args, config, content, child, idx, pre, inv, started>>

\* RemoveTemp: fs::remove_file(path)
VimRemoveTemp(p) ==
  /\ pc[p] = "RemoveTemp"
  /\ Stage(p, "RemoveTemp")
  /\ \E r \in RemoveResults(fs, TempPath(config[p].filename)) :
       /\ fs' = r.fs
       /\ IF r.ok
          THEN Goto(p, "Compare") /\ UNCHANGED out
          ELSE /\ Say(p, << <<"Unable to remove temp file", config[p].filename>>, ErrLine >>)
               /\ Goto(p, "done")
  /\ UNCHANGED <<configs, cmd, args, config, content, child, idx, pre, inv, started>>

\* (mutant) no comparison: the update is issued whatever was read back
VimCompare_alwaysPersist(p) ==
  /\ pc[p] = "Compare"
  /\ Stage(p, "Compare")
  /\ Goto(p, "Persist")
  /\ UNCHANGED <<configs, fs, cmd, args, config, content, child, idx, out, pre, inv, started>>

\* (mutant) the read-back is compared with the content the table holds now
VimCompare_againstStore(p) ==
  /\ pc[p] = "Compare"
  /\ Stage(p, "Compare")
  /\ IF LET cur == ByFilename(configs, config[p].filename)
        IN  Len(cur) > 0 /\ cur[1].content = content[p]
     THEN /\ Say(p, << <<"No changes made to file", config[p].filename>> >>)
          /\ Goto(p, "done")
     ELSE /\ Goto(p, "Persist")
          /\ UNCHANGED out
  /\ UNCHANGED <<configs, fs, cmd, args, config, content, child, idx, pre, inv, started>>

\* Compare: &content == &config.content
VimCompare(p) ==
  /\ pc[p] = "Compare"
  /\ Stage(p, "Compare")
  /\ IF content[p] = config[p].content
     THEN /\ Say(p, << <<"No changes made to file", config[p].filename>> >>)
          /\ Goto(p, "done")
     ELSE /\ Goto(p, "Persist")
          /\ UNCHANGED out
  /\ UNCHANGED <<configs, fs, cmd, args, config, content, child, idx, pre, inv, started>>

\* (mutant) the update sets the content fetched at Lookup instead of the one read back
VimPersist_staleContent(p) ==
  /\ pc[p] = "Persist"
  /\ Stage(p, "Persist")
  /\ \E dbOk \in BOOLEAN :
       IF dbOk
       THEN /\ configs' = UpdateContent(configs, args[p][1], config[p].content)
            /\ Say(p, << <<"Updated config", config[p].filename>> >>)
       ELSE /\ Say(p, << <<"Unable to update config", config[p].filename>>, ErrLine >>)
            /\ UNCHANGED configs
  /\ Goto(p, "done")
  /\ UNCHANGED <<fs, cmd, args, config, content, child, idx, pre, inv, started>>

\* Persist: update(configs).filter(filename.eq(filename)).set(content.eq(content));
\* Ok(_) is taken as success whatever the number of rows it changed
VimPersist(p) ==
  /\ pc[p] = "Persist"
  /\ Stage(p, "Persist")
  /\ \E dbOk \in BOOLEAN :
       IF dbOk
       THEN /\ configs' = UpdateContent(configs, args[p][1], content[p])
            /\ Say(p, << <<"Updated config", config[p].filename>> >>)
       ELSE /\ Say(p, << <<"Unable to update config", config[p].filename>>, ErrLine >>)
            /\ UNCHANGED configs
  /\ Goto(p, "done")
  /\ UNCHANGED <<fs, cmd, args, config, content, child, idx, pre, inv, started>>

\* ---------------------------------------------------------------- add
\* (mutant) an unreadable file makes add return
AddRead_abortOnError(p) ==
  /\ pc[p] = "add_read"
  /\ Stage(p, "Read")
  /\ \E r \in ReadResults(fs, args[p][1]) :
       IF r.ok
       THEN /\ content' = [content EXCEPT ![p] = r.data]
            /\ Goto(p, "add_check_filename")
            /\ UNCHANGED out
       ELSE /\ content' = [content EXCEPT ![p] = ""]
            /\ Say(p, << <<"Could not read file data", args[p][1]>> >>)
            /\ Goto(p, "done")
  /\ UNCHANGED <<configs, fs, cmd, args, config, child, idx, pre, inv, started>>

\* fs::read_to_string(filename); unreadable falls back to String::new()
AddRead(p) ==
  /\ pc[p] = "add_read"
  /\ Stage(p, "Read")
  /\ \E r \in ReadResults(fs, args[p][1]) :
       IF r.ok
       THEN /\ content' = [content EXCEPT ![p] = r.data]
            /\ UNCHANGED out
       ELSE /\ content' = [content EXCEPT ![p] = ""]
            /\ Say(p, << <<"Could not read file data", args[p][1]>> >>)
  /\ Goto(p, "add_check_filename")
  /\ UNCHANGED <<configs, fs, cmd, args, config, child, idx, pre, inv, started>>

\* configs.filter(filename.eq(filename)).count()
AddCheckFilename(p) ==
  /\ pc[p] = "add_check_filename"
  /\ Stage(p, "CheckFilename")
  /\ \E dbOk \in BOOLEAN :
       IF ~dbOk
       THEN Say(p, << <<"Unable to fetch configs", "">>, ErrLine >>) /\ Goto(p, "done")
       ELSE IF Len(ByFilename(configs, args[p][1])) # 0
       THEN Say(p, << <<"Filename already exists", "">> >>) /\ Goto(p, "done")
       ELSE Goto(p, "add_check_shorthand") /\ UNCHANGED out
  /\ UNCHANGED <<configs, fs, cmd, args, config, content, child, idx, pre, inv, started>>

\* (mutant) the second check filters on the filename column again
AddCheckShorthand_wrongColumn(p) ==
  /\ pc[p] = "add_check_shorthand"
  /\ Stage(p, "CheckShorthand")
  /\ \E dbOk \in BOOLEAN :
       IF ~dbOk
       THEN Say(p, << <<"Unable to fetch configs", "">>, ErrLine >>) /\ Goto(p, "done")
       ELSE IF Len(ByFilename(configs, args[p][2])) # 0
       THEN Say(p, << <<"Shorthand already exists", "">> >>) /\ Goto(p, "done")
       ELSE Goto(p, "add_insert") /\ UNCHANGED out
  /\ UNCHANGED <<configs, fs, cmd, args, config, content, child, idx, pre, inv, started>>

\* configs.filter(shorthand.eq(shorthand)).count()
AddCheckShorthand(p) ==
  /\ pc[p] = "add_check_shorthand"
  /\ Stage(p, "CheckShorthand")
  /\ \E dbOk \in BOOLEAN :
       IF ~dbOk
       THEN Say(p, << <<"Unable to fetch configs", "">>, ErrLine >>) /\ Goto(p, "done")
       ELSE IF Len(ByShorthand(configs, args[p][2])) # 0
       THEN Say(p, << <<"Shorthand already exists", "">> >>) /\ Goto(p, "done")
       ELSE Goto(p, "add_insert") /\ UNCHANGED out
  /\ UNCHANGED <<configs, fs, cmd, args, config, content, child, idx, pre, inv, started>>

\* (mutant) the record is built with String::new() instead of the content read
AddInsert_emptyContent(p) ==
  /\ pc[p] = "add_insert"
  /\ Stage(p, "Insert")
  /\ LET new == [filename |-> args[p][1], shorthand |-> args[p][2], content |-> ""] IN
     \E dbOk \in BOOLEAN :
       IF dbOk /\ ~UniqueViolation(configs, new)
       THEN /\ configs' = Append(configs, new)
            /\ Say(p, << <<"Config created", args[p][1]>> >>)
       ELSE /\ Say(p, << <<"Unable to store new config", args[p][1]>>, ErrLine >>)
            /\ UNCHANGED configs
  /\ Goto(p, "done")
  /\ UNCHANGED <<fs, cmd, args, config, content, child, idx, pre, inv, started>>

\* (mutant) the result of the insert is dropped and success is printed regardless
AddInsert_ignoresResult(p) ==
  /\ pc[p] = "add_insert"
  /\ Stage(p, "Insert")
  /\ LET new == [filename |-> args[p][1], shorthand |-> args[p][2], content |-> content[p]] IN
     \E dbOk \in BOOLEAN :
       IF dbOk /\ ~UniqueViolation(configs, new)
       THEN configs' = Append(configs, new)
       ELSE UNCHANGED configs
  /\ Say(p, << <<"Config created", args[p][1]>> >>)
  /\ Goto(p, "done")
  /\ UNCHANGED <<fs, cmd, args, config, content, child, idx, pre, inv, started>>

\* insert_into(configs).values(&config).execute()
AddInsert(p) ==
  /\ pc[p] = "add_insert"
  /\ Stage(p, "Insert")
  /\ LET new == [filename |-> args[p][1], shorthand |-> args[p][2], content |-> content[p]] IN
     \E dbOk \in BOOLEAN :
       IF dbOk /\ ~UniqueViolation(configs, new)
       THEN /\ configs' = Append(configs, new)
            /\ Say(p, << <<"Config created", args[p][1]>> >>)
       ELSE /\ Say(p, << <<"Unable to store new config", args[p][1]>>, ErrLine >>)
            /\ UNCHANGED configs
  /\ Goto(p, "done")
  /\ UNCHANGED <<fs, cmd, args, config, content, child, idx, pre, inv, started>>

\* ---------------------------------------------------------------- remove
\* (mutant) the delete statement has lost its filter
RemoveDelete_noFilter(p) ==
  /\ pc[p] = "remove_delete"
  /\ Stage(p, "Delete")
  /\ \E dbOk \in BOOLEAN :
       IF ~dbOk
       THEN /\ Say(p, << <<"Unable to delete config", "">>, ErrLine >>)
            /\ UNCHANGED configs
       ELSE LET deleted == Len(configs) IN
            /\ configs' = << >>
            /\ IF deleted = 0
               THEN Say(p, << <<"Unknown config filename", args[p][1]>> >>)
               ELSE Say(p, << <<"Config removed", args[p][1]>> >>)
  /\ Goto(p, "done")
  /\ UNCHANGED <<fs, cmd, args, config, content, child, idx, pre, inv, started>>

\* delete(configs).filter(filename.eq(filename)).execute()
RemoveDelete(p) ==
  /\ pc[p] = "remove_delete"
  /\ Stage(p, "Delete")
  /\ \E dbOk \in BOOLEAN :
       IF ~dbOk
       THEN /\ Say(p, << <<"Unable to delete config", "">>, ErrLine >>)
            /\ UNCHANGED configs
       ELSE LET deleted == Len(ByFilename(configs, args[p][1])) IN
            /\ configs' = DeleteByFilename(configs, args[p][1])
            /\ IF deleted = 0
               THEN Say(p, << <<"Unknown config filename", args[p][1]>> >>)
               ELSE Say(p, << <<"Config removed", args[p][1]>> >>)
  /\ Goto(p, "done")
  /\ UNCHANGED <<fs, cmd, args, config, content, child, idx, pre, inv, started>>

\* ---------------------------------------------------------------- clone
\* the for loop moves to the next shorthand, or the handler returns
CloneNext(p) ==
  /\ idx' = [idx EXCEPT ![p] = @ + 1]
  /\ Goto(p, IF idx[p] < Len(args[p]) THEN "clone_lookup" ELSE "done")

\* (mutant) an unknown shorthand returns from the handler instead of continuing
CloneLookup_returnOnUnknown(p) ==
  /\ pc[p] = "clone_lookup"
  /\ Stage(p, "CloneLookup")
  /\ \E dbOk \in BOOLEAN :
       LET found == ByShorthand(configs, args[p][idx[p]]) IN
       IF dbOk /\ Len(found) > 0
       THEN /\ config' = [config EXCEPT ![p] = found[1]]
            /\ Goto(p, "clone_write")
            /\ UNCHANGED <<out, idx>>
       ELSE /\ Say(p, << <<"Unknown config shorthand", args[p][idx[p]]>> >>)
            /\ Goto(p, "done")
            /\ UNCHANGED <<config, idx>>
  /\ UNCHANGED <<configs, fs, cmd, args, content, child, pre, inv, started>>

\* configs.filter(shorthand.eq(shorthand)).first(); any Err is "unknown"
CloneLookup(p) ==
  /\ pc[p] = "clone_lookup"
  /\ Stage(p, "CloneLookup")
  /\ \E dbOk \in BOOLEAN :
       LET found == ByShorthand(configs, args[p][idx[p]]) IN
       IF dbOk /\ Len(found) > 0
       THEN /\ config' = [config EXCEPT ![p] = found[1]]
            /\ Goto(p, "clone_write")
            /\ UNCHANGED <<out, idx>>
       ELSE /\ Say(p, << <<"Unknown config shorthand", args[p][idx[p]]>> >>)
            /\ CloneNext(p)
            /\ UNCHANGED config
  /\ UNCHANGED <<configs, fs, cmd, args, content, child, pre, inv, started>>

\* fs::write(config.filename, config.content)
CloneWrite(p) ==
  /\ pc[p] = "clone_write"
  /\ Stage(p, "CloneWrite")
  /\ \E w \in WriteResults(fs, config[p].filename, config[p].content) :
       /\ fs' = w.fs
       /\ IF w.ok
          THEN Say(p, << <<"Wrote to file", config[p].filename>> >>)
          ELSE Say(p, << <<"Unable to write file", config[p].filename>>, ErrLine >>)
  /\ CloneNext(p)
  /\ UNCHANGED <<configs, cmd, args, config, content, child, pre, inv, started>>

\* ---------------------------------------------------------------- list
TableRow(r) == <<"row", r.shorthand \o " " \o r.filename \o " " \o ToString(Len(r.content))>>

\* configs.load().unwrap(), then one table row per record
ListLoad(p) ==
  /\ pc[p] = "list_load"
  /\ Stage(p, "Load")
  /\ \E dbOk \in BOOLEAN :
       IF dbOk
       THEN Say(p, [i \in DOMAIN configs |-> TableRow(configs[i])])
       ELSE Say(p, << <<"panicked", "unwrap">> >>)
  /\ Goto(p, "done")
  /\ UNCHANGED <<configs, fs, cmd, args, config, content, child, idx, pre, inv, started>>

\* ---------------------------------------------------------------- specifications
Step(p) ==
  \/ VimLookup(p) \/ VimWriteTemp(p) \/ VimSpawnEditor(p) \/ EditorSave(p) \/ EditorExit(p)
  \/ VimWaitEditor(p) \/ VimReadTemp(p) \/ VimRemoveTemp(p) \/ VimCompare(p) \/ VimPersist(p)
  \/ AddRead(p) \/ AddCheckFilename(p) \/ AddCheckShorthand(p) \/ AddInsert(p)
  \/ RemoveDelete(p)
  \/ CloneLookup(p) \/ CloneWrite(p)
  \/ ListLoad(p)

Next == \E p \in Procs : Start(p) \/ Step(p)

\* invocations of separate processes, interleaved at every access to shared state
Spec == Init /\ [][Next]_vars

Quiet(p) == pc[p] \in {"idle", "done"}

\* one command runs to completion before the next one is launched
SeqNext == \E p \in Procs : ((\A q \in Procs : Quiet(q)) /\ Start(p)) \/ Step(p)

SeqSpec == Init /\ [][SeqNext]_vars

\* the statements of vim that do not block: each is executed once control is at it
VimRuns(p) ==
  \/ VimLookup(p) \/ VimWriteTemp(p) \/ VimSpawnEditor(p)
  \/ VimReadTemp(p) \/ VimRemoveTemp(p) \/ VimCompare(p) \/ VimPersist(p)

\* child.wait() returns once the child has exited
VimWaitReturns(p) == child[p] # "running" /\ VimWaitEditor(p)

\* sequential invocations in which a handler that can run does run; nothing makes
\* the user launch a command, save in the editor or close it
LiveSpec ==
  /\ Init /\ [][SeqNext]_vars
  /\ \A p \in Procs : WF_vars(VimRuns(p)) /\ WF_vars(VimWaitReturns(p))

\* ---------------------------------------------------------------- reading a run
Printed(p, text) == \E i \in DOMAIN out[p] : out[p][i][1] = text
Times(p, text) == Len(SelectSeq(out[p], LAMBDA e : e[1] = text))
Ran(p, stage) == \E i \in DOMAIN stages[p] : stages[p][i] = stage
Finished(p, c) == pc[p] = "done" /\ cmd[p] = c
\* p's invocation has returned and no invocation was launched after it
JustFinished(p, c) == Finished(p, c) /\ inv[p] = started
Used(t, f, s) == Len(ByFilename(t, f)) > 0 \/ Len(ByShorthand(t, s)) > 0

Unique(t) ==
  \A i, j \in DOMAIN t :
    i # j => t[i].filename # t[j].filename /\ t[i].shorthand # t[j].shorthand

\* C1: in every reachable state, no two records of the table share a filename and
\* no two share a shorthand (invocations of add, vim, remove, clone and list, run
\* one after another or interleaved, from a table that satisfies it).
C1_Uniqueness == Unique(configs)

\* C1 witness: an add has inserted a second record next to an existing one.
C1_Witness ==
  /\ Len(configs) = 2
  /\ \E p \in Procs : Finished(p, "add") /\ Printed(p, "Config created")

\* C2: an add(filename, shorthand) launched while the filename or the shorthand is
\* in use never executes the insert step and leaves the table as it was; it ends
\* with the Conflict report of the first key found in use ("Filename already
\* exists", else "Shorthand already exists"), a failed count query (the store
\* failure of C5) being reported as such instead.
C2_AddConflict ==
  \A p \in Procs :
    (JustFinished(p, "add") /\ Len(args[p]) = 2 /\ Used(pre[p], args[p][1], args[p][2])) =>
      /\ ~Ran(p, "Insert")
      /\ configs = pre[p]
      /\ ~Printed(p, "Config created")
      /\ ~Printed(p, "Unable to fetch configs") =>
           out[p][Len(out[p])][1] =
             (IF Len(ByFilename(pre[p], args[p][1])) > 0
              THEN "Filename already exists" ELSE "Shorthand already exists")

\* C2 witness: an add whose filename is free and whose shorthand is taken has ended
\* with "Shorthand already exists", after both checks ran.
C2_Witness ==
  \E p \in Procs :
    /\ JustFinished(p, "add") /\ Len(args[p]) = 2
    /\ Len(ByFilename(pre[p], args[p][1])) = 0
    /\ Len(ByShorthand(pre[p], args[p][2])) > 0
    /\ Printed(p, "Shorthand already exists")
    /\ Ran(p, "CheckFilename") /\ Ran(p, "CheckShorthand")

\* the rows of table t named f, as a set of contents
ContentsOf(t, f) == {t[i].content : i \in {j \in DOMAIN t : t[j].filename = f}}

\* C3: a vim that found its record, passed every stage through RemoveTemp, read
\* back a content different from the one fetched at Lookup and whose update did
\* not fail leaves that record holding exactly the content read back, every other
\* row as it was, and has printed "Updated config" once and "No changes" never
\* (invocations run one after another).
C3_ChangedEdit ==
  \A p \in Procs :
    (/\ JustFinished(p, "vim") /\ Ran(p, "Compare")
     /\ content[p] # config[p].content
     /\ ~Printed(p, "Unable to update config")) =>
      /\ ContentsOf(configs, args[p][1]) = {content[p]}
      /\ Len(configs) = Len(pre[p])
      /\ \A i \in DOMAIN configs :
           /\ configs[i].filename = pre[p][i].filename
           /\ configs[i].shorthand = pre[p][i].shorthand
           /\ configs[i].filename # args[p][1] => configs[i] = pre[p][i]
      /\ Times(p, "Updated config") = 1
      /\ ~Printed(p, "No changes made to file")
      /\ out[p] = << <<"Updated config", args[p][1]>> >>

\* C3 witness: a vim on b.conf (stored "Y") has read back another content, stored
\* it and reported the update.
C3_Witness ==
  \E p \in Procs :
    /\ JustFinished(p, "vim") /\ Ran(p, "Persist")
    /\ config[p].content = "Y" /\ content[p] # "Y"
    /\ Printed(p, "Updated config")
    /\ ContentsOf(configs, "b.conf") = {content[p]}

\* C4: a vim that read back exactly the content fetched at Lookup issues no update
\* and leaves the table as it was; once the temp file is removed it prints "No
\* changes made to file" and nothing else, and returns (a failed removal of the
\* temp file is the abort of C5 instead).
C4_NoOpEdit ==
  \A p \in Procs :
    (/\ JustFinished(p, "vim") /\ Ran(p, "RemoveTemp")
     /\ content[p] = config[p].content) =>
      /\ ~Ran(p, "Persist")
      /\ configs = pre[p]
      /\ ~Printed(p, "Updated config")
      /\ \/ out[p] = << <<"No changes made to file", args[p][1]>> >>
         \/ /\ Printed(p, "Unable to remove temp file")
            /\ ~Ran(p, "Compare")

\* C4 witness: the editor saved the stored content back and the vim ended with
\* "No changes made to file".
C4_Witness ==
  \E p \in Procs :
    /\ JustFinished(p, "vim") /\ Ran(p, "Compare")
    /\ content[p] = config[p].content
    /\ Printed(p, "No changes made to file")
    /\ configs = pre[p]

\* the reports with which vim, add and remove abort, each with the stage(s) printing it
Aborts ==
  { [cmd |-> "vim", text |-> "Unknown config filename", at |-> {"Lookup"}],
    [cmd |-> "vim", text |-> "Unable to temp file", at |-> {"WriteTemp"}],
    [cmd |-> "vim", text |-> "Failed to run editor", at |-> {"SpawnEditor"}],
    [cmd |-> "vim", text |-> "Editor returned a non-zero status", at |-> {"WaitEditor"}],
    [cmd |-> "vim", text |-> "Unable to read temp file", at |-> {"ReadTemp"}],
    [cmd |-> "vim", text |-> "Unable to remove temp file", at |-> {"RemoveTemp"}],
    [cmd |-> "vim", text |-> "Unable to update config", at |-> {"Persist"}],
    [cmd |-> "add", text |-> "Unable to fetch configs", at |-> {"CheckFilename", "CheckShorthand"}],
    [cmd |-> "add", text |-> "Unable to store new config", at |-> {"Insert"}],
    [cmd |-> "remove", text |-> "Unable to delete config", at |-> {"Delete"}] }

\* what p printed, without the "Error: ..." lines
Reports(p) == SelectSeq(out[p], LAMBDA e : e[1] # "Error")

\* C5: once vim, add or remove has printed an abort report (Lookup NotFound,
\* WriteTemp, SpawnEditor, WaitEditor, ReadTemp, RemoveTemp or Persist failure; a
\* failed store operation of add or remove) the invocation has returned: the stage
\* that printed it is the last one executed, the report is the last one printed,
\* and the table is the one the invocation started with.
C5_AbortTerminal ==
  \A p \in Procs : \A a \in Aborts :
    (cmd[p] = a.cmd /\ Printed(p, a.text)) =>
      /\ pc[p] = "done"
      /\ stages[p][Len(stages[p])] \in a.at
      /\ Reports(p)[Len(Reports(p))][1] = a.text
      /\ Times(p, a.text) = 1
      /\ inv[p] = started => configs = pre[p]

\* C5 witness: a vim whose update failed at Persist, after every earlier stage
\* succeeded, has returned with the table untouched.
C5_Witness ==
  \E p \in Procs :
    /\ JustFinished(p, "vim")
    /\ Printed(p, "Unable to update config")
    /\ Ran(p, "Persist")
    /\ content[p] # config[p].content
    /\ configs = pre[p]

RowSet(t) == {t[i] : i \in DOMAIN t}

\* C6: a remove(filename) whose delete statement did not fail prints "Unknown
\* config filename" and nothing else, and leaves the table as it was, when no
\* record has that filename; otherwise it prints "Config removed" and the table
\* loses exactly the record of that filename. A second remove of the same
\* filename right after the first finds nothing and leaves the table as the first
\* left it.
C6_Remove ==
  /\ \A p \in Procs :
       (JustFinished(p, "remove") /\ Len(args[p]) = 1
        /\ ~Printed(p, "Unable to delete config")) =>
         IF Len(ByFilename(pre[p], args[p][1])) = 0
         THEN /\ out[p] = << <<"Unknown config filename", args[p][1]>> >>
              /\ configs = pre[p]
         ELSE /\ out[p] = << <<"Config removed", args[p][1]>> >>
              /\ Len(configs) = Len(pre[p]) - 1
              /\ RowSet(configs) = {r \in RowSet(pre[p]) : r.filename # args[p][1]}
  /\ \A p, q \in Procs :
       (/\ Finished(p, "remove") /\ JustFinished(q, "remove")
        /\ inv[q] = inv[p] + 1
        /\ Len(args[p]) = 1 /\ args[q] = args[p]
        /\ ~Printed(p, "Unable to delete config")
        /\ ~Printed(q, "Unable to delete config")) =>
         /\ configs = pre[q]
         /\ out[q] = << <<"Unknown config filename", args[q][1]>> >>

\* C6 witness: b.conf was removed, then removed again: the second remove reported
\* an unknown filename.
C6_Witness ==
  \E p, q \in Procs :
    /\ Finished(p, "remove") /\ JustFinished(q, "remove")
    /\ inv[q] = inv[p] + 1
    /\ args[p] = <<"b.conf">> /\ args[q] = <<"b.conf">>
    /\ Printed(p, "Config removed")
    /\ Printed(q, "Unknown config filename")
    /\ configs = << >>

\* C7: the first invocation is add(f, s), with f and s unused and the file f
\* readable; the next one is clone(s), and its write succeeds: then clone has
\* written the file f, and f holds what it held when add ran.
C7_RoundTrip ==
  \A p, q \in Procs :
    (/\ Finished(p, "add") /\ inv[p] = 1 /\ Len(args[p]) = 2
     /\ ~Used(pre[p], args[p][1], args[p][2])
     /\ InitFs[args[p][1]] # NoFile
     /\ ~Printed(p, "Could not read file data")
     /\ JustFinished(q, "clone") /\ inv[q] = 2
     /\ args[q] = <<args[p][2]>>
     /\ Printed(q, "Wrote to file")) =>
      /\ out[q] = << <<"Wrote to file", args[p][1]>> >>
      /\ fs[args[p][1]] = InitFs[args[p][1]]

\* C7 witness: add("a.conf", "a") with a.conf holding "X", then clone("a") wrote
\* a.conf.
C7_Witness ==
  \E p, q \in Procs :
    /\ Finished(p, "add") /\ inv[p] = 1 /\ args[p] = <<"a.conf", "a">>
    /\ Printed(p, "Config created")
    /\ JustFinished(q, "clone") /\ inv[q] = 2 /\ args[q] = <<"a">>
    /\ Printed(q, "Wrote to file")
    /\ fs["a.conf"] = "X"

\* C8: a finished clone has looked every alias of its argument list up, and has
\* printed one report per alias, in order: "Unknown config shorthand" for an alias
\* no record has (or whose lookup failed), else "Wrote to file" or "Unable to
\* write file" for the record's filename. The file of an alias reported written,
\* and not reported unwritable at a later position, holds the record's content.
C8_CloneIndependent ==
  \A p \in Procs :
    JustFinished(p, "clone") =>
      /\ Len(Reports(p)) = Len(args[p])
      /\ Len(SelectSeq(stages[p], LAMBDA g : g = "CloneLookup")) = Len(args[p])
      /\ \A i \in DOMAIN args[p] :
           LET a == args[p][i]
               m == ByShorthand(pre[p], a)
               R == Reports(p)
           IN IF Len(m) = 0
              THEN R[i] = <<"Unknown config shorthand", a>>
              ELSE /\ R[i] \in { <<"Wrote to file", m[1].filename>>,
                                 <<"Unable to write file", m[1].filename>>,
                                 <<"Unknown config shorthand", a>> }
                   /\ (/\ R[i][1] = "Wrote to file"
                       /\ \A j \in DOMAIN R :
                            j > i => R[j] # <<"Unable to write file", m[1].filename>>)
                      => fs[m[1].filename] = m[1].content

\* C8 witness: clone("a", "b") with "a" unknown and "b" known reported the unknown
\* alias and then wrote b.conf.
C8_Witness ==
  \E p \in Procs :
    /\ JustFinished(p, "clone")
    /\ args[p] = <<"a", "b">>
    /\ Reports(p) = << <<"Unknown config shorthand", "a">>, <<"Wrote to file", "b.conf">> >>
    /\ Len(ByShorthand(pre[p], "a")) = 0
    /\ fs["b.conf"] = "Y"

\* C9: an add(filename, shorthand) that could not read the file, with neither key
\* in use, goes on to the filename check, then (the count queries answering) to
\* the shorthand check and the insert, and (the insert not failing) has appended
\* the record <filename, shorthand, ""> to the table and printed "Config created".
C9_UnreadableAdd ==
  \A p \in Procs :
    (/\ JustFinished(p, "add") /\ Len(args[p]) = 2
     /\ Printed(p, "Could not read file data")
     /\ ~Used(pre[p], args[p][1], args[p][2])) =>
      /\ Ran(p, "CheckFilename")
      /\ ~Printed(p, "Unable to fetch configs") =>
           Ran(p, "CheckShorthand") /\ Ran(p, "Insert")
      /\ (~Printed(p, "Unable to fetch configs") /\ ~Printed(p, "Unable to store new config")) =>
           /\ Printed(p, "Config created")
           /\ configs = Append(pre[p], [filename |-> args[p][1], shorthand |-> args[p][2],
                                        content |-> ""])

\* C9 witness: add("b.conf", "b") with no file b.conf created the record with
\* empty content.
C9_Witness ==
  \E p \in Procs :
    /\ JustFinished(p, "add") /\ args[p] = <<"b.conf", "b">>
    /\ fs["b.conf"] = NoFile
    /\ Printed(p, "Could not read file data")
    /\ Printed(p, "Config created")
    /\ configs = <<[filename |-> "b.conf", shorthand |-> "b", content |-> ""]>>

\* C10: update_content fails with NotFound when no record matches: a Persist step
\* that finds no record with the given filename reports a failure and does not
\* report "Updated config".
C10_UpdateNotFound ==
  [][\A p \in Procs :
       (/\ pc[p] = "Persist" /\ pc'[p] = "done"
        /\ Len(ByFilename(configs, args[p][1])) = 0) =>
         /\ ~Printed(p, "Updated config")'
         /\ Printed(p, "Unable to update config")']_vars

\* C11: an editor that exits with a non-zero status makes vim abort at WaitEditor
\* with a process error: the invocation never executes ReadTemp, Compare or
\* Persist, and once returned it has printed "Editor returned a non-zero status"
\* and left the table as it was.
C11_AbnormalExit ==
  \A p \in Procs :
    (cmd[p] = "vim" /\ child[p] = "exit1") =>
      /\ ~Ran(p, "ReadTemp") /\ ~Ran(p, "Compare") /\ ~Ran(p, "Persist")
      /\ JustFinished(p, "vim") =>
           /\ Printed(p, "Editor returned a non-zero status")
           /\ configs = pre[p]

\* the reports with which vim aborts
VimAborts == {a \in Aborts : a.cmd = "vim"}

\* C12: every abort report of vim names the failing stage and is followed by the
\* line printing the underlying error; no stage aborts without it, and no failure
\* of a stage (a non-zero exit of the editor included) is passed over.
C12_AbortsReportError ==
  \A p \in Procs :
    cmd[p] = "vim" =>
      /\ \A i \in DOMAIN out[p] :
           (\E a \in VimAborts : out[p][i][1] = a.text) =>
             (i < Len(out[p]) /\ out[p][i + 1] = ErrLine)
      /\ (child[p] = "exit1" /\ Ran(p, "WaitEditor")) =>
           Printed(p, "Editor returned a non-zero status")

\* p and q are adds given an overlapping filename or shorthand
RacingAdds(p, q) ==
  /\ p # q
  /\ cmd[p] = "add" /\ cmd[q] = "add"
  /\ Len(args[p]) = 2 /\ Len(args[q]) = 2
  /\ args[p][1] = args[q][1] \/ args[p][2] = args[q][2]

\* the record p's insert stored is in the table
Stored(p) ==
  /\ pc[p] = "done" /\ Printed(p, "Config created")
  /\ \E i \in DOMAIN configs :
       configs[i].filename = args[p][1] /\ configs[i].shorthand = args[p][2]

\* q's insert is refused: the store failure and its error are printed, the table
\* is left as it is
Refused(q) ==
  /\ out'[q] = out[q] \o << <<"Unable to store new config", args[q][1]>>, ErrLine >>
  /\ configs' = configs

\* C13: of two adds with an overlapping filename or shorthand that have both
\* passed their count checks, the first to execute its insert stores its record
\* or is refused by the store; an insert executed while the record stored by the
\* other add is in the table is refused and prints "Unable to store new config"
\* with the error (so at most one of the two prints "Config created"); no two
\* records of the table ever share a filename or a shorthand.
C13_AddRace ==
  /\ [](\A i, j \in DOMAIN configs :
          i # j => /\ configs[i].filename # configs[j].filename
                   /\ configs[i].shorthand # configs[j].shorthand)
  /\ [][\A p, q \in Procs :
          (RacingAdds(p, q) /\ pc[q] = "add_insert" /\ pc'[q] = "done") =>
            /\ Stored(p) => Refused(q)
            /\ pc[p] = "add_insert" =>
                 \/ Refused(q)
                 \/ /\ out'[q] = Append(out[q], <<"Config created", args[q][1]>>)
                    /\ Len(configs') = Len(configs) + 1
                    /\ pc'[p] = "add_insert"]_vars

\* C13 witness: both adds passed both checks on an empty table, one inserted its
\* record and the other was refused at the insert.
C13_Witness ==
  \E p, q \in Procs :
    /\ RacingAdds(p, q)
    /\ pc[p] = "done" /\ pc[q] = "done"
    /\ pre[p] = << >> /\ pre[q] = << >>
    /\ Ran(p, "CheckShorthand") /\ Ran(q, "CheckShorthand")
    /\ Ran(p, "Insert") /\ Ran(q, "Insert")
    /\ \E w, l \in {p, q} :
         /\ w # l
         /\ Printed(w, "Config created")
         /\ Printed(l, "Unable to store new config")
         /\ configs = <<[filename |-> args[w][1], shorthand |-> args[w][2],
                         content |-> content[w]]>>

\* the stages of the edit workflow, in the order of the source
VimStages ==
  <<"Lookup", "WriteTemp", "SpawnEditor", "WaitEditor", "ReadTemp", "RemoveTemp",
    "Compare", "Persist">>

IsPrefix(a, b) == Len(a) <= Len(b) /\ \A i \in DOMAIN a : a[i] = b[i]

\* C14: at every point of a vim invocation the stages executed so far are an
\* initial part of Lookup, WriteTemp, SpawnEditor, WaitEditor, ReadTemp,
\* RemoveTemp, Compare, Persist (each at most once, in that order, none skipped or
\* retried); when Persist has been executed no earlier stage has printed an abort
\* report and the content read back differs from the one fetched at Lookup.
C14_StageOrder ==
  \A p \in Procs :
    cmd[p] = "vim" =>
      /\ IsPrefix(stages[p], VimStages)
      /\ Ran(p, "Persist") =>
           /\ content[p] # config[p].content
           /\ \A a \in VimAborts : a.text # "Unable to update config" => ~Printed(p, a.text)
           /\ ~Printed(p, "No changes made to file")

\* C14 witness: a vim has executed the eight stages, Persist last.
C14_Witness ==
  \E p \in Procs :
    /\ JustFinished(p, "vim")
    /\ stages[p] = VimStages
    /\ Printed(p, "Updated config")

\* C15: a vim whose ReadTemp failed has returned without executing RemoveTemp:
\* the file <filename>.temp is still in the working directory and the table is
\* the one the invocation started with.
C15_ReadTempLeavesFile ==
  \A p \in Procs :
    (JustFinished(p, "vim") /\ Printed(p, "Unable to read temp file")) =>
      /\ stages[p][Len(stages[p])] = "ReadTemp"
      /\ ~Ran(p, "RemoveTemp")
      /\ fs[TempPath(args[p][1])] # NoFile
      /\ configs = pre[p]

\* C15 witness: a vim on b.conf has aborted at ReadTemp and b.conf.temp holds what
\* the editor saved.
C15_Witness ==
  \E p \in Procs :
    /\ JustFinished(p, "vim") /\ args[p] = <<"b.conf">>
    /\ Printed(p, "Unable to read temp file")
    /\ fs["b.conf.temp"] = "X"
    /\ configs = pre[p]

\* stage s1 was executed before stage s2 in p's invocation
Before(p, s1, s2) ==
  \E i, j \in DOMAIN stages[p] : i < j /\ stages[p][i] = s1 /\ stages[p][j] = s2

\* q's invocation returned because its wait failed, leaving behind an editor that
\* had path f open
Abandoned(q, f) ==
  /\ cmd[q] = "vim" /\ pc[q] = "done"
  /\ Printed(q, "Editor returned a non-zero status")
  /\ TempPath(config[q].filename) = f

\* C16: a vim that reaches Compare or Persist has executed RemoveTemp before, and
\* the removal succeeded; a vim that ended with "No changes made to file" or
\* "Updated config" finds no <filename>.temp in the working directory (unless an
\* editor abandoned by an earlier, aborted invocation still has that path open).
C16_RemovedBeforeCompare ==
  \A p \in Procs :
    cmd[p] = "vim" =>
      LET gone == \/ fs[TempPath(args[p][1])] = NoFile
                  \/ \E q \in Procs \ {p} : Abandoned(q, TempPath(args[p][1]))
      IN
      /\ Ran(p, "Compare") => Before(p, "RemoveTemp", "Compare")
      /\ Ran(p, "Persist") => Before(p, "RemoveTemp", "Persist") /\ Before(p, "Compare", "Persist")
      /\ (pc[p] \in {"Compare", "Persist"} \/ Ran(p, "Compare")) =>
           ~Printed(p, "Unable to remove temp file")
      /\ pc[p] \in {"Compare", "Persist"} => gone
      /\ (JustFinished(p, "vim")
          /\ (Printed(p, "No changes made to file") \/ Printed(p, "Updated config"))) =>
           /\ Ran(p, "RemoveTemp")
           /\ gone

\* C16 witness: both successful outcomes have happened, one in each process, and
\* no temp file is left.
C16_Witness ==
  /\ \A f \in Filenames : fs[TempPath(f)] = NoFile
  /\ \E p, q \in Procs :
       /\ Finished(p, "vim") /\ Printed(p, "No changes made to file")
       /\ JustFinished(q, "vim") /\ Printed(q, "Updated config")
       /\ \A r \in Procs : child[r] # "running"

\* a step in which p's insert appended one record with the keys p was given
AddedBy(p) ==
  /\ cmd[p] = "add" /\ pc[p] = "add_insert" /\ pc'[p] = "done"
  /\ Len(configs') = Len(configs) + 1
  /\ SubSeq(configs', 1, Len(configs)) = configs
  /\ configs'[Len(configs')].filename = args[p][1]
  /\ configs'[Len(configs')].shorthand = args[p][2]

\* a step in which p's delete took one record out, the one with the filename p was given
RemovedBy(p) ==
  /\ cmd[p] = "remove" /\ pc[p] = "remove_delete" /\ pc'[p] = "done"
  /\ Len(configs') = Len(configs) - 1
  /\ \E k \in DOMAIN configs :
       /\ configs[k].filename = args[p][1]
       /\ configs' = [i \in 1..(Len(configs) - 1) |-> IF i < k THEN configs[i] ELSE configs[i + 1]]

\* a Persist step of p, whose read-back differs, that replaced the content of the
\* record with the filename p was given and touched nothing else
PersistedBy(p) ==
  /\ cmd[p] = "vim" /\ pc[p] = "Persist" /\ pc'[p] = "done"
  /\ content[p] # config[p].content
  /\ Len(configs') = Len(configs)
  /\ \A i \in DOMAIN configs :
       /\ configs'[i].filename = configs[i].filename
       /\ configs'[i].shorthand = configs[i].shorthand
       /\ configs'[i] # configs[i] =>
            configs[i].filename = args[p][1] /\ configs'[i].content = content[p]

\* C17: every step that changes the table is the insert of an add (one more
\* record, the others untouched), the delete of a remove (one record fewer, the
\* others untouched) or the Persist of a vim whose read-back differs (content of
\* the record with the given filename only); no step changes a filename or a
\* shorthand of a record, and no step of clone or list changes the table.
C17_Frame ==
  [][configs' # configs => \E p \in Procs : AddedBy(p) \/ RemovedBy(p) \/ PersistedBy(p)]_vars

\* C17 witness: the table holds two records and a vim on b.conf has replaced the
\* content of b.conf alone.
C17_Witness ==
  \E p \in Procs :
    /\ JustFinished(p, "vim") /\ args[p] = <<"b.conf">>
    /\ Printed(p, "Updated config")
    /\ Len(configs) = 2 /\ Len(pre[p]) = 2
    /\ configs[1].filename = "b.conf" /\ configs[1].content # pre[p][1].content
    /\ configs[2] = pre[p][2]

\* p is in the edit workflow and has not returned
InVim(p) == cmd[p] = "vim" /\ pc[p] \in {VimStages[i] : i \in DOMAIN VimStages}

\* p waits for an editor that has not exited
Suspended(p) == cmd[p] = "vim" /\ pc[p] = "WaitEditor" /\ child[p] = "running"

\* C18: (liveness) a vim whose editor does not stay open forever returns; (safety)
\* a step taken while p waits for a running editor leaves p in WaitEditor with no
\* stage executed (unless the wait itself fails, and then p returns with the
\* report of the wait and nothing else), leaves the table as it is and leaves
\* every file in the working directory in place.
C18_Suspended ==
  /\ \A p \in Procs : ([]<>~Suspended(p)) => [](InVim(p) => <>(pc[p] = "done"))
  /\ [][\A p \in Procs :
          Suspended(p) =>
            /\ \/ pc'[p] = "WaitEditor" /\ stages'[p] = stages[p] /\ out'[p] = out[p]
               \/ /\ pc'[p] = "done"
                  /\ stages'[p] = Append(stages[p], "WaitEditor")
                  /\ out'[p] = out[p] \o << <<"Editor returned a non-zero status", "">>, ErrLine >>
            /\ configs' = configs
            /\ content'[p] = content[p]
            /\ \A f \in Paths : fs[f] # NoFile => fs'[f] # NoFile]_vars

\* C18 witness: a vim has returned after its editor saved new content and exited,
\* having reached the end of the workflow.
C18_Witness ==
  \E p \in Procs :
    /\ JustFinished(p, "vim")
    /\ child[p] = "exit0"
    /\ Ran(p, "WaitEditor") /\ Ran(p, "Persist")
    /\ content[p] # config[p].content

\* p's vim is the first command launched (no temp file existed before it) and has
\* returned: a temp file found now was created by this invocation
FirstVimDone(p) == JustFinished(p, "vim") /\ inv[p] = 1 /\ Len(args[p]) > 0

\* the removal is attempted only after a successful ReadTemp, and the aborts at
\* SpawnEditor, WaitEditor, ReadTemp and RemoveTemp end with the temp file present
RemovalOnlyAfterRead(p) ==
  /\ Ran(p, "RemoveTemp") =>
       Before(p, "ReadTemp", "RemoveTemp") /\ ~Printed(p, "Unable to read temp file")
  /\ (\/ Printed(p, "Failed to run editor")
      \/ Printed(p, "Editor returned a non-zero status")
      \/ Printed(p, "Unable to read temp file")
      \/ Printed(p, "Unable to remove temp file")) =>
       /\ ~(Ran(p, "RemoveTemp") /\ ~Printed(p, "Unable to remove temp file"))
       /\ fs[TempPath(args[p][1])] # NoFile

\* C19 (as stated): removal only after ReadTemp succeeded; aborts at SpawnEditor,
\* WaitEditor and ReadTemp end with the temp file present; an abort at Lookup, at
\* WriteTemp or at Persist ends with no temp file of this invocation.
C19_AsStated ==
  \A p \in Procs :
    FirstVimDone(p) =>
      /\ RemovalOnlyAfterRead(p)
      /\ (\/ Printed(p, "Unknown config filename")
          \/ Printed(p, "Unable to temp file")
          \/ Printed(p, "Unable to update config")) =>
           fs[TempPath(args[p][1])] = NoFile

\* C19 (amended): removal only after ReadTemp succeeded; aborts at SpawnEditor,
\* WaitEditor and ReadTemp end with the temp file present; an abort at Lookup or
\* at Persist ends with no temp file of this invocation; an abort at WriteTemp
\* ends with no temp file or with one that does not hold the record's content
\* (created, then the write failed), and executes nothing after WriteTemp.
C19_TempFileLeft ==
  \A p \in Procs :
    FirstVimDone(p) =>
      /\ RemovalOnlyAfterRead(p)
      /\ (Printed(p, "Unknown config filename") \/ Printed(p, "Unable to update config")) =>
           fs[TempPath(args[p][1])] = NoFile
      /\ Printed(p, "Unable to temp file") =>
           /\ stages[p] = <<"Lookup", "WriteTemp">>
           /\ fs[TempPath(args[p][1])] \in {NoFile, ""}
           /\ configs = pre[p]

\* C19 witness: the first vim aborted at WriteTemp and left b.conf.temp behind,
\* without the content "Y" of the record.
C19_Witness ==
  \E p \in Procs :
    /\ FirstVimDone(p) /\ args[p] = <<"b.conf">>
    /\ Printed(p, "Unable to temp file")
    /\ config[p].content = "Y"
    /\ fs["b.conf.temp"] = ""

\* C20: the Compare step of a vim decides on the read-back and the snapshot
\* fetched at Lookup alone, whatever the table holds by then: equal, it prints
\* "No changes made to file", returns and leaves the table (a change made
\* meanwhile included) as it is; different, it goes on to Persist, whose update
\* prints "Updated config" and nothing else and leaves the record with the
\* read-back content, whatever content another invocation stored meanwhile.
C20_SnapshotCompare ==
  [][\A p \in Procs :
       cmd[p] = "vim" =>
         /\ (pc[p] = "Compare" /\ pc'[p] # "Compare") =>
              /\ configs' = configs
              /\ IF content[p] = config[p].content
                 THEN /\ pc'[p] = "done"
                      /\ out'[p] = Append(out[p], <<"No changes made to file", args[p][1]>>)
                 ELSE /\ pc'[p] = "Persist"
                      /\ out'[p] = out[p]
         /\ (pc[p] = "Persist" /\ pc'[p] # "Persist") =>
              /\ pc'[p] = "done"
              /\ \/ /\ out'[p] = Append(out[p], <<"Updated config", args[p][1]>>)
                    /\ ContentsOf(configs', args[p][1]) \subseteq {content[p]}
                    /\ Len(ByFilename(configs', args[p][1])) = Len(ByFilename(configs, args[p][1]))
                 \/ /\ out'[p] = out[p] \o << <<"Unable to update config", args[p][1]>>, ErrLine >>
                    /\ configs' = configs]_vars

\* C20 witness: two vims took the snapshot "Y" of b.conf, their editors saved
\* different contents, both printed "Updated config" and nothing else, and the
\* table holds the content of one of them.
C20_Witness ==
  \E p, q \in Procs :
    /\ p # q
    /\ Finished(p, "vim") /\ Finished(q, "vim")
    /\ args[p] = <<"b.conf">> /\ args[q] = <<"b.conf">>
    /\ config[p].content = "Y" /\ config[q].content = "Y"
    /\ content[p] # content[q]
    /\ out[p] = << <<"Updated config", "b.conf">> >>
    /\ out[q] = << <<"Updated config", "b.conf">> >>
    /\ ContentsOf(configs, "b.conf") = {content[q]}

====
